---- MODULE Spec2Model ----
(***************************************************************************)
(* A model of pycollocation.solvers.Solver: the model and params setters   *)
(* with their validators, the lazily compiled boundary-condition callables *)
(* memoized per instance, the class-level cache of compiled right-hand     *)
(* sides, the evaluation of boundary residuals and residual functions, the *)
(* coefficient array <-> dict conversions and the result accessors.        *)
(*                                                                         *)
(* Identifiers (parameter names, variable names) are sequences of          *)
(* character codes, so that Python's ordering of strings can be computed.  *)
(***************************************************************************)
EXTENDS Integers, Sequences, FiniteSets, TLC

VARIABLES
    \* the Solver instances whose constructor has returned
    alive,
    \* _model[s]: the attribute _model of instance s
    _model,
    \* _params[s]: the attribute _params of instance s, as its items in order
    _params,
    \* what self.__lower_boundary_condition is for instance s: the class
    \* attribute (None) until the instance has an attribute of its own
    __lower_boundary_condition,
    \* the same for self.__upper_boundary_condition
    __upper_boundary_condition,
    \* the class attribute Solver._cached_rhs_functions
    _cached_rhs_functions,
    \* _result[s]: the attribute _result of instance s
    _result,
    \* degrees[s]: the attribute degrees of instance s
    degrees,
    \* the number of completed solves so far
    solves,
    \* the outcome of the last operation
    ret

vars == <<alive, _model, _params, __lower_boundary_condition,
          __upper_boundary_condition, _cached_rhs_functions, _result,
          degrees, solves, ret>>

----------------------------------------------------------------------------
(* Bounds of the model.                                                    *)

\* The largest number of entries of a params dictionary handed to a setter.
MaxParams == 2
\* The largest polynomial degree of a degrees mapping.
MaxDegree == 1
\* The cap on the number of solves in one run.
MaxSolves == 3

\* The Solver instances of a run: two, so that what one instance memoizes can
\* be told from what another sees.
Solvers == {1, 2}

----------------------------------------------------------------------------
(* Identifiers and Python's order on strings.                              *)

Name_a == <<97>>
Name_ab == <<97, 98>>
Name_b == <<98>>
Name_t == <<116>>
Name_x == <<120>>
Name_y == <<121>>

\* The variables a model may depend on.
AllVars == {Name_x, Name_y}

\* str.__lt__: the first differing character decides, a proper prefix is less.
RECURSIVE StrLess(_, _)
StrLess(a, b) ==
    IF a = <<>> THEN b # <<>>
    ELSE IF b = <<>> THEN FALSE
    ELSE IF a[1] < b[1] THEN TRUE
    ELSE IF a[1] > b[1] THEN FALSE
    ELSE StrLess(Tail(a), Tail(b))

\* The elements of a sequence.
Range(seq) == {seq[i] : i \in 1..Len(seq)}

----------------------------------------------------------------------------
(* Values handed to the setters.                                           *)

\* A value of a parameter: a number, or something that is not a number.
ParamValues ==
    {[type |-> "int", v |-> 1], [type |-> "str", v |-> 0]}

ParamKeys == {Name_a, Name_ab, Name_b}

\* The classes that are dict or a subclass of it; list and NoneType, the
\* classes of the other objects handed to the params setter, are not.
DictClasses == {"dict", "OrderedDict"}

\* The items of a dictionary in its iteration order: the keys are distinct.
DictItems(keys, values, n) ==
    {its \in UNION {[1..k -> keys \X values] : k \in 0..n} :
        \A i, j \in 1..Len(its) : i # j => its[i][1] # its[j][1]}

NoParams == [cls |-> "NoneType", items |-> <<>>]

\* What a caller may assign to params.
ParamsInputs(keys, values, n) ==
    [cls : DictClasses, items : DictItems(keys, values, n)]
    \cup {[cls |-> "list", items |-> its] : its \in DictItems(keys, values, 1)}
    \cup {NoParams}

\* A symbolic expression: which model it belongs to and which part it is.
NoExpr == [of |-> "", part |-> "", var |-> <<>>]
Expr(name, part, var) == [of |-> name, part |-> part, var |-> var]

\* An object with the attributes of a model.  lower and upper tell whether
\* boundary_conditions['lower'] and ['upper'] are expression lists (TRUE) or
\* None (FALSE); rhs maps every dependent variable to its expression.
ModelObject(cls, name, dvars, lower, upper) ==
    [cls |-> cls, name |-> name, independent_var |-> Name_t,
     dependent_vars |-> dvars, lower |-> lower, upper |-> upper]

NoModel == ModelObject("NoneType", "", <<>>, FALSE, FALSE)

boundary_conditions(m, side) ==
    IF side = "lower"
    THEN (IF m.lower THEN Expr(m.name, "lower", <<>>) ELSE NoExpr)
    ELSE (IF m.upper THEN Expr(m.name, "upper", <<>>) ELSE NoExpr)

rhs(m, var) == Expr(m.name, "rhs", var)

\* The models of the runs: they differ in the order and number of their
\* dependent variables and in the sides that have a boundary condition.
Models ==
    { ModelObject("SymbolicModel", "m1", <<Name_x, Name_y>>, TRUE, TRUE),
      ModelObject("SymbolicModel", "m2", <<Name_y, Name_x>>, TRUE, FALSE),
      ModelObject("SymbolicModel", "m3", <<Name_x>>, FALSE, TRUE),
      ModelObject("SymbolicModel", "m4", <<Name_x, Name_y>>, FALSE, FALSE) }

\* Objects that are no models: a plain mapping with the same entries, and None.
NonModels ==
    { ModelObject("dict", "d1", <<Name_x, Name_y>>, TRUE, TRUE), NoModel }

ModelInputs == Models \cup NonModels

----------------------------------------------------------------------------
(* The validators and the ordering of params.                              *)

\* isinstance(model, models.SymbolicModel)
IsSymbolicModel(m) == m.cls = "SymbolicModel"

\* Solver._validate_model: the error raised, "None" when the model is returned.
_validate_model(m) ==
    IF ~IsSymbolicModel(m) THEN "AttributeError" ELSE "None"

\* isinstance(value, dict)
IsDict(value) == value.cls \in DictClasses

_validate_params_unchecked(value) == "None"

\* Solver._validate_params: the error raised, "None" when the value is returned.
_validate_params(value) ==
    IF ~IsDict(value) THEN "AttributeError" ELSE "None"

\* The order sorted() puts two items of a dictionary in: tuples compare by
\* their first components, which are distinct keys.
ItemLess(p, q) == StrLess(p[1], q[1])

\* sorted(items): the items in ascending order.
RECURSIVE sorted(_)
sorted(items) ==
    IF items = <<>> THEN <<>>
    ELSE LET least == CHOOSE i \in 1..Len(items) :
                          \A j \in 1..Len(items) :
                              j # i => ItemLess(items[i], items[j])
             rest == [k \in 1..(Len(items) - 1) |->
                          IF k < least THEN items[k] ELSE items[k + 1]]
         IN  <<items[least]>> \o sorted(rest)

_order_params_unsorted(p) == p.items

\* Solver._order_params: collections.OrderedDict(sorted(params.items()))
_order_params(p) == sorted(p.items)

----------------------------------------------------------------------------
(* The outcome of an operation.                                            *)

\* A dictionary without entries.
NoDict == [k \in {} |-> <<>>]

\* The _result of an instance that has none: the attribute does not exist.
NoResult == [id |-> 0, success |-> FALSE, x |-> <<>>]

\* A compiled callable: the instance whose _lambdify_factory made it, the
\* symbols it takes in order and the expression it evaluates.  NoCallable is
\* Python's None.
NoCallable == [by |-> 0, args |-> <<>>, expr |-> NoExpr]

Outcome(op, s, raised) ==
    [op |-> op, self |-> s, raised |-> raised,
     model_arg |-> NoModel, params_arg |-> NoParams,
     fn |-> NoCallable, var |-> <<>>, basis |-> {}, compiled |-> <<>>,
     calls |-> <<>>, entries |-> <<>>,
     coefs_array |-> <<>>, degrees_arg |-> <<>>, coefs_dict |-> NoDict,
     value |-> NoDict, res |-> NoResult]

----------------------------------------------------------------------------
(* Construction and the setters.                                           *)

\* Solver.__init__: self.model = model, then self.params = params.  When
\* either assignment raises, no instance comes to exist.
__init__(s, m, p) ==
    /\ s \notin alive
    /\ LET raised == IF _validate_model(m) # "None" THEN _validate_model(m)
                     ELSE _validate_params(p)
       IN  /\ ret' = [Outcome("__init__", s, raised) EXCEPT
                          !.model_arg = m, !.params_arg = p]
           /\ IF raised = "None"
              THEN /\ alive' = alive \cup {s}
                   /\ _model' = [_model EXCEPT ![s] = m]
                   /\ _params' = [_params EXCEPT ![s] = _order_params(p)]
              ELSE UNCHANGED <<alive, _model, _params>>
    /\ UNCHANGED <<__lower_boundary_condition, __upper_boundary_condition,
                   _cached_rhs_functions, _result, degrees, solves>>

\* The setter of Solver.model.
SetModel(s, m) ==
    /\ s \in alive
    /\ ret' = [Outcome("model.setter", s, _validate_model(m)) EXCEPT
                   !.model_arg = m]
    /\ IF _validate_model(m) = "None"
       THEN _model' = [_model EXCEPT ![s] = m]
       ELSE UNCHANGED _model
    /\ UNCHANGED <<alive, _params, __lower_boundary_condition,
                   __upper_boundary_condition, _cached_rhs_functions, _result,
                   degrees, solves>>

\* The setter of Solver.params.
SetParams(s, p) ==
    /\ s \in alive
    /\ ret' = [Outcome("params.setter", s, _validate_params(p)) EXCEPT
                   !.params_arg = p]
    /\ IF _validate_params(p) = "None"
       THEN _params' = [_params EXCEPT ![s] = _order_params(p)]
       ELSE UNCHANGED _params
    /\ UNCHANGED <<alive, _model, __lower_boundary_condition,
                   __upper_boundary_condition, _cached_rhs_functions, _result,
                   degrees, solves>>

----------------------------------------------------------------------------
(* The state after the class is defined: no instance, an empty cache.      *)

InitState ==
    /\ alive = {}
    /\ _model = [s \in Solvers |-> NoModel]
    /\ _params = [s \in Solvers |-> <<>>]
    /\ __lower_boundary_condition = [s \in Solvers |-> NoCallable]
    /\ __upper_boundary_condition = [s \in Solvers |-> NoCallable]
    /\ _cached_rhs_functions = [v \in AllVars |-> NoCallable]
    /\ _result = [s \in Solvers |-> NoResult]
    /\ degrees = [s \in Solvers |-> <<>>]
    /\ solves = 0
    /\ ret = Outcome("", 0, "None")

----------------------------------------------------------------------------
(* Assignments: instances are constructed and their model and params are   *)
(* assigned, with every kind of value.                                     *)

AssignParamsInputs == ParamsInputs(ParamKeys, ParamValues, MaxParams)

\* Assignments to one instance touch no other instance and no class attribute,
\* so these runs follow a single instance.
AssignSolvers == {1}

AssignNext ==
    \/ \E s \in AssignSolvers, m \in ModelInputs, p \in AssignParamsInputs :
           __init__(s, m, p)
    \/ \E s \in AssignSolvers, m \in ModelInputs : SetModel(s, m)
    \/ \E s \in AssignSolvers, p \in AssignParamsInputs : SetParams(s, p)

SpecAssign == InitState /\ [][AssignNext]_vars

----------------------------------------------------------------------------
(* Compilation of expressions and the boundary-condition accessors.        *)

\* list(self.params.keys())
Keys(items) == [i \in 1..Len(items) |-> items[i][1]]

\* Solver._symbolic_vars
_symbolic_vars(s) == <<_model[s].independent_var>> \o _model[s].dependent_vars

\* Solver._symbolic_params
_symbolic_params(s) == Keys(_params[s])

\* Solver._symbolic_args
_symbolic_args(s) == _symbolic_vars(s) \o _symbolic_params(s)

\* Solver._lambdify_factory: sym.lambdify(self._symbolic_args, expr, ...)
_lambdify_factory(s, expr) ==
    [by |-> s, args |-> _symbolic_args(s), expr |-> expr]

\* One read of a boundary-condition property of instance s, memo being what
\* self.__<side>_boundary_condition holds before: the value returned, what the
\* attribute holds afterwards and the expressions compiled.
BoundaryProperty(s, side, memo) ==
    LET condition == boundary_conditions(_model[s], side)
    IN  IF condition # NoExpr
        THEN IF memo = NoCallable
             THEN [fn |-> _lambdify_factory(s, condition),
                   memo |-> _lambdify_factory(s, condition),
                   compiled |-> <<condition>>]
             ELSE [fn |-> memo, memo |-> memo, compiled |-> <<>>]
        ELSE [fn |-> NoCallable, memo |-> memo, compiled |-> <<>>]

_lower_boundary_condition_recompiling(s, memo) ==
    BoundaryProperty(s, "lower", NoCallable)

\* Solver._lower_boundary_condition
_lower_boundary_condition(s, memo) == BoundaryProperty(s, "lower", memo)

\* Solver._upper_boundary_condition
_upper_boundary_condition(s, memo) == BoundaryProperty(s, "upper", memo)

\* A read of the property _lower_boundary_condition of instance s.
GetLower(s) ==
    /\ s \in alive
    /\ LET r == _lower_boundary_condition(s, __lower_boundary_condition[s])
       IN  /\ __lower_boundary_condition' =
                  [__lower_boundary_condition EXCEPT ![s] = r.memo]
           /\ ret' = [Outcome("_lower_boundary_condition", s, "None") EXCEPT
                          !.fn = r.fn, !.compiled = r.compiled]
    /\ UNCHANGED <<alive, _model, _params, __upper_boundary_condition,
                   _cached_rhs_functions, _result, degrees, solves>>

\* A read of the property _upper_boundary_condition of instance s.
GetUpper(s) ==
    /\ s \in alive
    /\ LET r == _upper_boundary_condition(s, __upper_boundary_condition[s])
       IN  /\ __upper_boundary_condition' =
                  [__upper_boundary_condition EXCEPT ![s] = r.memo]
           /\ ret' = [Outcome("_upper_boundary_condition", s, "None") EXCEPT
                          !.fn = r.fn, !.compiled = r.compiled]
    /\ UNCHANGED <<alive, _model, _params, __lower_boundary_condition,
                   _cached_rhs_functions, _result, degrees, solves>>

----------------------------------------------------------------------------
(* Evaluation of the boundary residuals.                                   *)

\* The basis functions handed to an evaluation, by the variables they are for.
BasisInputs == SUBSET AllVars \ {{}}

\* Solver._evaluate_basis_funcs: the error raised looking up basis_funcs[var].
EvaluateBasisRaises(s, basis) ==
    IF \E i \in 1..Len(_model[s].dependent_vars) :
           _model[s].dependent_vars[i] \notin basis
    THEN "KeyError" ELSE "None"

\* The positional arguments of a call of a compiled callable, each named by
\* what it is the value of: the point, _evaluate_basis_funcs(...) and
\* list(self.params.values()).
PassedArgs(s) ==
    <<_model[s].independent_var>> \o _model[s].dependent_vars
        \o Keys(_params[s])

\* The call fn(*passed) of a function made by lambdify: it takes exactly as
\* many positional arguments as the symbols it was compiled with.
CallRaises(fn, passed) ==
    IF Len(passed) # Len(fn.args) THEN "TypeError" ELSE "None"

\* One side's residual, first and second being the two reads of the side's
\* property: one for the test against None, one for the call.
BoundaryResidual(s, first, second, basis) ==
    LET call == [fn |-> second.fn, passed |-> PassedArgs(s)]
    IN  IF first.fn # NoCallable
        THEN IF EvaluateBasisRaises(s, basis) # "None"
             THEN [memo |-> first.memo, compiled |-> first.compiled,
                   calls |-> <<>>, raised |-> "KeyError", residual |-> FALSE]
             ELSE [memo |-> second.memo,
                   compiled |-> first.compiled \o second.compiled,
                   calls |-> <<call>>,
                   raised |-> CallRaises(second.fn, call.passed),
                   residual |-> CallRaises(second.fn, call.passed) = "None"]
        ELSE [memo |-> first.memo, compiled |-> first.compiled,
              calls |-> <<>>, raised |-> "None", residual |-> FALSE]

\* Solver._evaluate_lower_boundary_residual
_evaluate_lower_boundary_residual(s, memo, basis) ==
    LET first == _lower_boundary_condition(s, memo)
    IN  BoundaryResidual(s, first, _lower_boundary_condition(s, first.memo),
                         basis)

\* Solver._evaluate_upper_boundary_residual
_evaluate_upper_boundary_residual(s, memo, basis) ==
    LET first == _upper_boundary_condition(s, memo)
    IN  BoundaryResidual(s, first, _upper_boundary_condition(s, first.memo),
                         basis)

\* Solver._evaluate_boundary_residuals: the lower residual, then the upper
\* one; the list holds those that are not None, the lower one first.
_evaluate_boundary_residuals(s, basis) ==
    /\ s \in alive
    /\ LET lo == _evaluate_lower_boundary_residual(
                     s, __lower_boundary_condition[s], basis)
           up == _evaluate_upper_boundary_residual(
                     s, __upper_boundary_condition[s], basis)
           op == Outcome("_evaluate_boundary_residuals", s, "None")
       IN  /\ __lower_boundary_condition' =
                  [__lower_boundary_condition EXCEPT ![s] = lo.memo]
           /\ IF lo.raised # "None"
              THEN /\ UNCHANGED __upper_boundary_condition
                   /\ ret' = [op EXCEPT !.raised = lo.raised,
                                        !.basis = basis,
                                        !.compiled = lo.compiled,
                                        !.calls = lo.calls]
              ELSE /\ __upper_boundary_condition' =
                           [__upper_boundary_condition EXCEPT ![s] = up.memo]
                   /\ ret' = [op EXCEPT
                          !.raised = up.raised,
                          !.basis = basis,
                          !.compiled = lo.compiled \o up.compiled,
                          !.calls = lo.calls \o up.calls,
                          !.entries =
                              IF up.raised # "None" THEN <<>>
                              ELSE (IF lo.residual THEN <<"lower">> ELSE <<>>)
                                   \o (IF up.residual THEN <<"upper">>
                                       ELSE <<>>)]
    /\ UNCHANGED <<alive, _model, _params, _cached_rhs_functions, _result,
                   degrees, solves>>

\* The steps of instances S whose params are assigned from P.
BoundarySteps(S, P) ==
    \/ \E s \in S, m \in ModelInputs, p \in P : __init__(s, m, p)
    \/ \E s \in S, m \in ModelInputs : SetModel(s, m)
    \/ \E s \in S, p \in P : SetParams(s, p)
    \/ \E s \in S : GetLower(s)
    \/ \E s \in S : GetUpper(s)
    \/ \E s \in S, basis \in BasisInputs :
           _evaluate_boundary_residuals(s, basis)

One == [type |-> "int", v |-> 1]

\* Two instances, each assigned one dictionary of params or None.
BoundaryParamsInputs ==
    {[cls |-> "dict", items |-> <<<<Name_a, One>>>>], NoParams}

BoundaryNext == BoundarySteps(Solvers, BoundaryParamsInputs)

SpecBoundary == InitState /\ [][BoundaryNext]_vars

\* One instance, assigned dictionaries with different keys: the keys decide
\* what a callable is compiled with, the values do not.
EvaluateParamsInputs == ParamsInputs({Name_a, Name_b}, {One}, MaxParams)

EvaluateNext == BoundarySteps({1}, EvaluateParamsInputs)

SpecEvaluate == InitState /\ [][EvaluateNext]_vars

----------------------------------------------------------------------------
(* The cache of compiled right-hand sides and the residual functions.      *)

_rhs_functions_recompiling(s, var, cache) ==
    IF var \notin Range(_model[s].dependent_vars)
    THEN [fn |-> NoCallable, cache |-> cache, compiled |-> <<>>,
          raised |-> "KeyError"]
    ELSE [fn |-> _lambdify_factory(s, rhs(_model[s], var)),
          cache |-> [cache EXCEPT ![var] =
                         _lambdify_factory(s, rhs(_model[s], var))],
          compiled |-> <<rhs(_model[s], var)>>,
          raised |-> "None"]

\* Solver._rhs_functions, cache being Solver._cached_rhs_functions before the
\* call: the value returned, the cache afterwards, the expressions compiled
\* and the error raised.  self.model.rhs has the model's dependent variables
\* as its keys.
_rhs_functions(s, var, cache) ==
    IF cache[var] = NoCallable
    THEN IF var \notin Range(_model[s].dependent_vars)
         THEN [fn |-> NoCallable, cache |-> cache, compiled |-> <<>>,
               raised |-> "KeyError"]
         ELSE [fn |-> _lambdify_factory(s, rhs(_model[s], var)),
               cache |-> [cache EXCEPT ![var] =
                              _lambdify_factory(s, rhs(_model[s], var))],
               compiled |-> <<rhs(_model[s], var)>>,
               raised |-> "None"]
    ELSE [fn |-> cache[var], cache |-> cache, compiled |-> <<>>,
          raised |-> "None"]

\* A call self._rhs_functions(var).
RhsFunctions(s, var) ==
    /\ s \in alive
    /\ LET r == _rhs_functions(s, var, _cached_rhs_functions)
       IN  /\ _cached_rhs_functions' = r.cache
           /\ ret' = [Outcome("_rhs_functions", s, r.raised) EXCEPT
                          !.var = var, !.fn = r.fn, !.compiled = r.compiled]
    /\ UNCHANGED <<alive, _model, _params, __lower_boundary_condition,
                   __upper_boundary_condition, _result, degrees, solves>>

\* A call of the residual_function that _residual_function_factory(var,
\* basis_derivs, basis_funcs) returns, basis being the keys of basis_funcs and
\* of basis_derivs: the arguments are evaluated, then basis_derivs[var], then
\* the right-hand side is fetched and called.
residual_function(s, var, basis) ==
    /\ s \in alive
    /\ var \in basis
    /\ LET r == _rhs_functions(s, var, _cached_rhs_functions)
           call == [fn |-> r.fn, passed |-> PassedArgs(s)]
           op == [Outcome("residual_function", s, "None") EXCEPT
                      !.var = var, !.basis = basis]
       IN  IF EvaluateBasisRaises(s, basis) # "None"
           THEN /\ ret' = [op EXCEPT !.raised = "KeyError"]
                /\ UNCHANGED _cached_rhs_functions
           ELSE IF r.raised # "None"
           THEN /\ ret' = [op EXCEPT !.raised = r.raised]
                /\ UNCHANGED _cached_rhs_functions
           ELSE /\ ret' = [op EXCEPT
                               !.raised = CallRaises(r.fn, call.passed),
                               !.fn = r.fn,
                               !.compiled = r.compiled,
                               !.calls = <<call>>]
                /\ _cached_rhs_functions' = r.cache
    /\ UNCHANGED <<alive, _model, _params, __lower_boundary_condition,
                   __upper_boundary_condition, _result, degrees, solves>>

\* Two instances, assigned dictionaries with one key or with two.
RhsParamsInputs ==
    {[cls |-> "dict", items |-> <<<<Name_a, One>>>>],
     [cls |-> "dict", items |-> <<<<Name_b, One>>, <<Name_a, One>>>>],
     NoParams}

\* The models of these runs: those with boundary conditions, which differ in
\* their dependent variables, and None.
RhsModelInputs == {m \in Models : m.lower \/ m.upper} \cup {NoModel}

RhsNext ==
    \/ \E s \in Solvers, m \in RhsModelInputs, p \in RhsParamsInputs :
           __init__(s, m, p)
    \/ \E s \in Solvers, m \in RhsModelInputs : SetModel(s, m)
    \/ \E s \in Solvers, p \in RhsParamsInputs : SetParams(s, p)
    \/ \E s \in Solvers, var \in AllVars : RhsFunctions(s, var)
    \/ \E s \in Solvers, var \in AllVars, basis \in BasisInputs :
           residual_function(s, var, basis)

SpecRhs == InitState /\ [][RhsNext]_vars

----------------------------------------------------------------------------
(* The conversions between an array of coefficients and a dictionary.      *)

Min(a, b) == IF a < b THEN a ELSE b

\* array[:n] and array[n:] of Python, for n >= 0: the slice ends with the array.
Take(array, n) == SubSeq(array, 1, Min(n, Len(array)))
Drop(array, n) == SubSeq(array, Min(n, Len(array)) + 1, Len(array))

\* sum(degrees.values()), degrees being the items of the mapping in the order
\* of its iteration.
RECURSIVE SumValues(_)
SumValues(degs) ==
    IF degs = <<>> THEN 0 ELSE degs[1][2] + SumValues(Tail(degs))

\* The loop of _coefs_array_to_dict over degrees.items(): each variable takes
\* the first degree + 1 entries of what is left of the array; a later
\* assignment to a key replaces an earlier one.
RECURSIVE SplitCoefs(_, _, _)
SplitCoefs(coefs_dict, coefs_array, degs) ==
    IF degs = <<>> THEN coefs_dict
    ELSE SplitCoefs(
             (degs[1][1] :> Take(coefs_array, degs[1][2] + 1)) @@ coefs_dict,
             Drop(coefs_array, degs[1][2] + 1),
             Tail(degs))

_coefs_array_to_dict_unchecked(coefs_array, degs) ==
    [raised |-> "None", value |-> SplitCoefs(NoDict, coefs_array, degs)]

\* Solver._coefs_array_to_dict: the error raised and the dictionary returned.
_coefs_array_to_dict(coefs_array, degs) ==
    LET precondition == Len(coefs_array) = SumValues(degs) + Len(degs)
        coefs_dict == SplitCoefs(NoDict, coefs_array, degs)
        postcondition == Cardinality(DOMAIN coefs_dict) = Len(degs)
    IN  IF ~precondition
        THEN [raised |-> "AssertionError", value |-> NoDict]
        ELSE IF ~postcondition
        THEN [raised |-> "AssertionError", value |-> NoDict]
        ELSE [raised |-> "None", value |-> coefs_dict]

\* np.hstack of the arrays coefs_dict[var], var running over vs.
RECURSIVE HStack(_, _)
HStack(coefs_dict, vs) ==
    IF vs = <<>> THEN <<>>
    ELSE coefs_dict[vs[1]] \o HStack(coefs_dict, Tail(vs))

\* Solver._coefs_dict_to_array: the error raised and the array returned.
_coefs_dict_to_array(s, coefs_dict) ==
    IF \E i \in 1..Len(_model[s].dependent_vars) :
           _model[s].dependent_vars[i] \notin DOMAIN coefs_dict
    THEN [raised |-> "KeyError", value |-> <<>>]
    ELSE IF _model[s].dependent_vars = <<>>
    THEN [raised |-> "ValueError", value |-> <<>>]
    ELSE [raised |-> "None",
          value |-> HStack(coefs_dict, _model[s].dependent_vars)]

\* The coefficients of the runs.
CoefValues == {0, 1}

\* The arrays of coefficients of length at most n.
CoefArrays(n) == UNION {[1..k -> CoefValues] : k \in 0..n}

\* The arrays of length at most n whose entries tell their positions.
PositionArrays(n) == {[i \in 1..k |-> i] : k \in 0..n}

\* The degrees mappings, as their items in the order of iteration.
DegreesInputs ==
    {degs \in UNION {[1..k -> AllVars \X (0..MaxDegree)] :
                         k \in 0..Cardinality(AllVars)} :
        \A i, j \in 1..Len(degs) : i # j => degs[i][1] # degs[j][1]}

\* The dictionaries that give every variable of degs degree + 1 coefficients.
MatchingDicts(degs) ==
    {d \in [Range(Keys(degs)) -> CoefArrays(MaxDegree + 1)] :
        \A i \in 1..Len(degs) : Len(d[degs[i][1]]) = degs[i][2] + 1}

\* A call Solver._coefs_array_to_dict(coefs_array, degs).
CoefsArrayToDict(coefs_array, degs) ==
    /\ LET r == _coefs_array_to_dict(coefs_array, degs)
       IN  ret' = [Outcome("_coefs_array_to_dict", 0, r.raised) EXCEPT
                       !.coefs_array = coefs_array,
                       !.degrees_arg = degs,
                       !.value = r.value]
    /\ UNCHANGED <<alive, _model, _params, __lower_boundary_condition,
                   __upper_boundary_condition, _cached_rhs_functions, _result,
                   degrees, solves>>

\* A call self._coefs_dict_to_array(coefs_dict) followed by a call
\* self._coefs_array_to_dict(<the array returned>, degs).
CoefsRoundTrip(s, coefs_dict, degs) ==
    /\ s \in alive
    /\ LET there == _coefs_dict_to_array(s, coefs_dict)
           back == _coefs_array_to_dict(there.value, degs)
           op == [Outcome("round_trip", s, there.raised) EXCEPT
                      !.coefs_dict = coefs_dict,
                      !.degrees_arg = degs,
                      !.coefs_array = there.value]
       IN  IF there.raised # "None"
           THEN ret' = op
           ELSE ret' = [op EXCEPT !.raised = back.raised,
                                  !.value = back.value]
    /\ UNCHANGED <<alive, _model, _params, __lower_boundary_condition,
                   __upper_boundary_condition, _cached_rhs_functions, _result,
                   degrees, solves>>

\* One instance, constructed with any of the models and no parameters.
CodecParamsInputs == {[cls |-> "dict", items |-> <<>>]}

CodecNext ==
    \/ \E m \in Models, p \in CodecParamsInputs : __init__(1, m, p)
    \/ \E m \in Models : SetModel(1, m)
    \/ \E degs \in DegreesInputs,
          coefs_array \in PositionArrays(Cardinality(AllVars)
                                             * (MaxDegree + 1) + 1) :
           CoefsArrayToDict(coefs_array, degs)
    \/ \E degs \in DegreesInputs : \E coefs_dict \in MatchingDicts(degs) :
           CoefsRoundTrip(1, coefs_dict, degs)

SpecCodec == InitState /\ [][CodecNext]_vars

----------------------------------------------------------------------------
(* Solving and the accessors of the result.                                *)

\* A completed solve of instance s: the external solver returned the
\* coefficients x with the flag success, for the degrees degs.
Solve(s, success, x, degs) ==
    /\ s \in alive
    /\ solves < MaxSolves
    /\ solves' = solves + 1
    /\ _result' = [_result EXCEPT
                      ![s] = [id |-> solves + 1, success |-> success, x |-> x]]
    /\ degrees' = [degrees EXCEPT ![s] = degs]
    /\ ret' = [Outcome("solve", s, "None") EXCEPT
                   !.res = [id |-> solves + 1, success |-> success, x |-> x],
                   !.degrees_arg = degs]
    /\ UNCHANGED <<alive, _model, _params, __lower_boundary_condition,
                   __upper_boundary_condition, _cached_rhs_functions>>

result_unset_is_none(s) == [raised |-> "None", res |-> _result[s]]

\* Solver.result: the error raised and the object returned; an instance that
\* was never solved has no attribute _result.
result(s) ==
    IF _result[s] = NoResult
    THEN [raised |-> "AttributeError", res |-> NoResult]
    ELSE [raised |-> "None", res |-> _result[s]]

\* Solver.coefficients: the error raised and the dictionary returned.
coefficients(s) ==
    IF result(s).raised # "None"
    THEN [raised |-> result(s).raised, value |-> NoDict]
    ELSE _coefs_array_to_dict(result(s).res.x, degrees[s])

\* A read of the property result of instance s.
GetResult(s) ==
    /\ s \in alive
    /\ ret' = [Outcome("result", s, result(s).raised) EXCEPT
                   !.res = result(s).res]
    /\ UNCHANGED <<alive, _model, _params, __lower_boundary_condition,
                   __upper_boundary_condition, _cached_rhs_functions, _result,
                   degrees, solves>>

\* A read of the property coefficients of instance s.
GetCoefficients(s) ==
    /\ s \in alive
    /\ ret' = [Outcome("coefficients", s, coefficients(s).raised) EXCEPT
                   !.value = coefficients(s).value]
    /\ UNCHANGED <<alive, _model, _params, __lower_boundary_condition,
                   __upper_boundary_condition, _cached_rhs_functions, _result,
                   degrees, solves>>

\* The solves of the runs: degree 0 for one variable or for two, and every
\* array of coefficients of that size.
SolveInputs ==
    {in \in [degs : {<<<<Name_x, 0>>>>, <<<<Name_x, 0>>, <<Name_y, 0>>>>},
             x : CoefArrays(Cardinality(AllVars))] :
        Len(in.x) = Len(in.degs)}

SolveNext ==
    \/ \E s \in Solvers, m \in {mo \in Models : mo.lower /\ mo.upper},
          p \in CodecParamsInputs : __init__(s, m, p)
    \/ \E s \in Solvers, success \in BOOLEAN, in \in SolveInputs :
           Solve(s, success, in.x, in.degs)
    \/ \E s \in Solvers : GetResult(s)
    \/ \E s \in Solvers : GetCoefficients(s)

SpecSolve == InitState /\ [][SolveNext]_vars

----------------------------------------------------------------------------
(* Properties of the assignments (SpecAssign).                             *)

\* The keys of items are in strictly ascending order.
KeysAscending(items) ==
    \A i \in 1..(Len(items) - 1) : StrLess(items[i][1], items[i + 1][1])

\* The last operation assigned params to instance s and did not raise.
AssignedParams(r, s) ==
    /\ r.op \in {"__init__", "params.setter"}
    /\ r.self = s
    /\ r.raised = "None"

\* C1: after every step, the params of every instance have their keys in
\* ascending lexicographic order; a successful assignment (the constructor's
\* included) leaves exactly the key/value pairs of the assigned mapping, and
\* no other step changes the params of an instance.
C1_ParamsCanonical ==
    [][\A s \in alive' :
           /\ KeysAscending(_params'[s])
           /\ AssignedParams(ret', s) =>
                  /\ Range(_params'[s]) = Range(ret'.params_arg.items)
                  /\ Len(_params'[s]) = Len(ret'.params_arg.items)
           /\ ~AssignedParams(ret', s) =>
                  /\ s \in alive
                  /\ _params'[s] = _params[s]]_vars

\* C1 (witness): {'b': 1, 'a': 'text'} was assigned and is stored as a, b,
\* each key with its value.
C1_Witness ==
    /\ ret.op = "params.setter"
    /\ ret.raised = "None"
    /\ Keys(ret.params_arg.items) = <<Name_b, Name_a>>
    /\ ret.params_arg.items[1][2].type = "int"
    /\ ret.params_arg.items[2][2].type = "str"
    /\ Keys(_params[ret.self]) = <<Name_a, Name_b>>
    /\ _params[ret.self][1][2].type = "str"
    /\ _params[ret.self][2][2].type = "int"

\* A mapping from keys to numbers.
IsNumericMapping(value) ==
    /\ value.cls \in DictClasses
    /\ \A i \in 1..Len(value.items) : value.items[i][2].type = "int"

\* C4 (as stated): a value that is no model assigned to model raises the
\* configuration error, and so does a value that is no mapping from keys to
\* numbers assigned to params.
C4_NonNumericRejected ==
    /\ (ret.op = "model.setter" /\ ret.model_arg.cls # "SymbolicModel")
           => ret.raised = "AttributeError"
    /\ (ret.op = "params.setter" /\ ~IsNumericMapping(ret.params_arg))
           => ret.raised = "AttributeError"

\* C4 (amended): a value that is no model assigned to model raises the
\* configuration error; a value assigned to params raises it exactly when the
\* value is no dict, whatever the values of a dict are; the constructor
\* raises when either of its assignments does; and a step that raises leaves
\* the instances, their models and their params as they were.
C4_InvalidAssignmentRejected ==
    [][/\ ret'.op = "model.setter" =>
              (ret'.raised = "AttributeError"
                   <=> ret'.model_arg.cls # "SymbolicModel")
       /\ ret'.op = "params.setter" =>
              (ret'.raised = "AttributeError"
                   <=> ret'.params_arg.cls \notin DictClasses)
       /\ ret'.op = "__init__" =>
              (ret'.raised = "AttributeError"
                   <=> \/ ret'.model_arg.cls # "SymbolicModel"
                       \/ ret'.params_arg.cls \notin DictClasses)
       /\ ret'.raised \in {"None", "AttributeError"}
       /\ ret'.raised = "AttributeError" =>
              /\ alive' = alive
              /\ _model' = _model
              /\ _params' = _params]_vars

\* C4 (witness): a list assigned to the params of an instance that holds a
\* non-empty dictionary was rejected.
C4_Witness ==
    /\ ret.op = "params.setter"
    /\ ret.params_arg.cls = "list"
    /\ ret.raised = "AttributeError"
    /\ _params[ret.self] # <<>>

----------------------------------------------------------------------------
(* Properties of the conversions of coefficients (SpecCodec).              *)

\* The sum over the variables of degs of degree + 1.
RECURSIVE ExpectedSize(_)
ExpectedSize(degs) ==
    IF degs = <<>> THEN 0 ELSE (degs[1][2] + 1) + ExpectedSize(Tail(degs))

\* coefs_dict gives exactly the variables of degs, which are the dependent
\* variables of model m, degree + 1 coefficients each.
Conforming(m, coefs_dict, degs) ==
    /\ DOMAIN coefs_dict = Range(Keys(degs))
    /\ Range(Keys(degs)) = Range(m.dependent_vars)
    /\ \A i \in 1..Len(degs) : Len(coefs_dict[degs[i][1]]) = degs[i][2] + 1

\* C2 (as stated): a conforming dictionary converted to an array and back,
\* with any degrees mapping, comes back with the same keys and values.
C2_RoundTrip ==
    (/\ ret.op = "round_trip"
     /\ Conforming(_model[ret.self], ret.coefs_dict, ret.degrees_arg))
        => /\ ret.raised = "None"
           /\ DOMAIN ret.value = DOMAIN ret.coefs_dict
           /\ \A v \in DOMAIN ret.coefs_dict : ret.value[v] = ret.coefs_dict[v]

\* What the conversions do keep: the round trip is the identity when the
\* degrees mapping iterates in the order of the model's dependent variables.
RoundTripInModelOrder ==
    (/\ ret.op = "round_trip"
     /\ Conforming(_model[ret.self], ret.coefs_dict, ret.degrees_arg)
     /\ Keys(ret.degrees_arg) = _model[ret.self].dependent_vars)
        => /\ ret.raised = "None"
           /\ ret.value = ret.coefs_dict

\* C3: _coefs_array_to_dict raises exactly when the size of the array differs
\* from the sum over the variables of degree + 1, and then returns nothing;
\* otherwise it returns a dictionary with one entry for each variable.
C3_ShapeMismatch ==
    ret.op = "_coefs_array_to_dict" =>
        /\ ret.raised \in {"None", "AssertionError"}
        /\ ret.raised = "AssertionError"
               <=> Len(ret.coefs_array) # ExpectedSize(ret.degrees_arg)
        /\ ret.raised = "AssertionError" => ret.value = NoDict
        /\ ret.raised = "None" =>
               DOMAIN ret.value = Range(Keys(ret.degrees_arg))

\* C3 (witness): an array one entry short of two variables' coefficients was
\* refused.
C3_Witness ==
    /\ ret.op = "_coefs_array_to_dict"
    /\ ret.raised = "AssertionError"
    /\ Len(ret.degrees_arg) = 2
    /\ Len(ret.coefs_array) + 1 = ExpectedSize(ret.degrees_arg)

----------------------------------------------------------------------------
(* Properties of the result (SpecSolve).                                   *)

\* The last operation was a solve of instance s.
SolvedBy(r, s) == r.op = "solve" /\ r.self = s

----------------------------------------------------------------------------
(* Properties of the boundary conditions (SpecBoundary, SpecEvaluate).     *)

\* The entries expected of the boundary residuals of a model.
DefinedSides(m) ==
    (IF m.lower THEN <<"lower">> ELSE <<>>)
        \o (IF m.upper THEN <<"upper">> ELSE <<>>)

\* C5 (as stated): handed basis functions for all its dependent variables,
\* _evaluate_boundary_residuals returns one entry for each side of the current
\* model that has a boundary condition, the lower one first, and does not
\* raise.
C5_ResidualsPerDefinedSide ==
    (/\ ret.op = "_evaluate_boundary_residuals"
     /\ Range(_model[ret.self].dependent_vars) \subseteq ret.basis)
        => /\ ret.raised = "None"
           /\ ret.entries = DefinedSides(_model[ret.self])

\* What one read of a side's property by instance s must do, memo and after
\* being what the instance holds for the side before and after the read.
C7_Read(s, side, memo, after, r) ==
    LET condition == boundary_conditions(_model[s], side)
    IN  /\ (r.fn = NoCallable) <=> (condition = NoExpr)
        /\ (condition # NoExpr /\ memo = NoCallable) =>
               /\ r.compiled = <<condition>>
               /\ r.fn.by = s
               /\ r.fn.expr = condition
               /\ after = r.fn
        /\ (condition # NoExpr /\ memo # NoCallable) =>
               /\ r.compiled = <<>>
               /\ r.fn = memo
               /\ after = memo
        /\ condition = NoExpr =>
               /\ r.compiled = <<>>
               /\ after = memo

\* C7: a read of a side's property returns None exactly when the current
\* model has no condition for the side; otherwise the first read compiles the
\* condition and stores the callable on the reading instance, and a later
\* read returns the stored callable and compiles nothing; what an instance
\* holds is never replaced, was compiled by that instance, and no step of one
\* instance changes what another holds or calls another's callable.
C7_BoundaryMemoPerInstance ==
    [][/\ \A s \in Solvers :
              /\ (ret'.op = "_lower_boundary_condition" /\ ret'.self = s) =>
                     C7_Read(s, "lower", __lower_boundary_condition[s],
                             __lower_boundary_condition'[s], ret')
              /\ (ret'.op = "_upper_boundary_condition" /\ ret'.self = s) =>
                     C7_Read(s, "upper", __upper_boundary_condition[s],
                             __upper_boundary_condition'[s], ret')
              /\ __lower_boundary_condition[s] # NoCallable =>
                     __lower_boundary_condition'[s] = __lower_boundary_condition[s]
              /\ __upper_boundary_condition[s] # NoCallable =>
                     __upper_boundary_condition'[s] = __upper_boundary_condition[s]
              /\ __lower_boundary_condition'[s].by \in {0, s}
              /\ __upper_boundary_condition'[s].by \in {0, s}
              /\ ret'.self # s =>
                     /\ __lower_boundary_condition'[s] =
                            __lower_boundary_condition[s]
                     /\ __upper_boundary_condition'[s] =
                            __upper_boundary_condition[s]
       /\ \A i \in 1..Len(ret'.calls) : ret'.calls[i].fn.by = ret'.self]_vars

\* C7 (witness): a later read returned the stored callable without compiling
\* while the other instance holds a callable of its own.
C7_Witness ==
    /\ ret.op = "_lower_boundary_condition"
    /\ ret.fn # NoCallable
    /\ ret.compiled = <<>>
    /\ \E o \in alive \ {ret.self} :
           /\ __lower_boundary_condition[o] # NoCallable
           /\ __lower_boundary_condition[o] # ret.fn

----------------------------------------------------------------------------
(* Properties of the cache of right-hand sides (SpecRhs).                  *)

RhsOps == {"_rhs_functions", "residual_function"}

\* C6: an entry of the cache is never replaced or removed; an entry for v
\* appears only in a request for v made while the cache has none, which
\* compiles the requesting instance's expression for v; and a request for v
\* that finds an entry returns that entry and compiles nothing, whichever
\* instance asks and whatever its model and params are.
C6_RhsCacheKeyedByVariable ==
    [][/\ \A v \in AllVars :
              /\ _cached_rhs_functions[v] # NoCallable =>
                     _cached_rhs_functions'[v] = _cached_rhs_functions[v]
              /\ _cached_rhs_functions'[v] # _cached_rhs_functions[v] =>
                     /\ ret'.op \in RhsOps
                     /\ ret'.var = v
                     /\ ret'.compiled = <<rhs(_model[ret'.self], v)>>
                     /\ _cached_rhs_functions'[v] = ret'.fn
       /\ (ret'.op \in RhsOps /\ ret'.compiled # <<>>) =>
              _cached_rhs_functions[ret'.var] = NoCallable
       /\ (/\ ret'.op \in RhsOps
           /\ _cached_rhs_functions[ret'.var] # NoCallable) =>
              /\ ret'.raised \in {"None", "TypeError"} =>
                     ret'.fn = _cached_rhs_functions[ret'.var]
              /\ ret'.compiled = <<>>]_vars

\* C6 (witness): an instance was handed the function another instance
\* compiled from another model.
C6_Witness ==
    /\ ret.op = "_rhs_functions"
    /\ ret.fn # NoCallable
    /\ ret.fn.by # ret.self
    /\ ret.fn.expr.of # _model[ret.self].name
    /\ ret.fn.args # _symbolic_args(ret.self)

\* C10 (as stated): every call of a compiled callable passes arguments that
\* correspond one for one, in number and order, to the symbols the callable
\* was compiled with.
C10_ArgumentsMatchSymbols ==
    \A i \in 1..Len(ret.calls) :
        ret.calls[i].passed = ret.calls[i].fn.args

====
